---- MODULE Spec2Model ----
(***************************************************************************)
(* Stadium wave engine (gogorichie/wave).                                  *)
(*                                                                         *)
(* The model follows the JavaScript engine of the repository, the classes  *)
(* MockCrowdSector and MockWaveGame and the API object mockGameAPI, as     *)
(* main.js drives it: init_game, update_game, get_events, start_wave_at,   *)
(* boost_sector_energy, save_game and load_game.  main.js also calls       *)
(* trigger_event, which that engine does not define; the two stadium       *)
(* events are modelled as the specification describes them.                *)
(*                                                                         *)
(* Seven specifications: Spec issues every API call over a short game;     *)
(* LongSpec ticks by the hand-off interval over whole waves; SaveSpec      *)
(* saves and loads freely between the calls of a short game; MainSpec      *)
(* follows main.js from initPyodide through the handlers that route each   *)
(* call to the mock engine or to Pyodide; TickSpec ticks by the frame      *)
(* loop's cap of 0.1 s, and by more, over one wave round the ring;         *)
(* FairSlowSpec ticks by 0.3 s and 0.6 s, long enough for sectors to sit   *)
(* down again, with the update weakly fair; UiSpec is the running page of  *)
(* main.js, its frame loop, input handlers, buttons and interval timers,   *)
(* on the mock engine.                                                     *)
(*                                                                         *)
(* The venue is the soccer stadium (wave_speed 0.3, energy_drain 0.2,      *)
(* base_enthusiasm 0.70); its sector count is the bound NumSectors.        *)
(*                                                                         *)
(* Units.  Time is counted in steps of 0.05 s, so 0.2 s = 4, 0.3 s = 6,    *)
(* 0.5 s = 10 and 1.5 s = 30.  Energy, fatigue and distractions are        *)
(* counted in steps of 1/400, so 1.0 = 400, 0.3 = 120, 0.2 = 80 and        *)
(* 0.1 = 40; the recovery rates 0.1/s and 0.05/s are then 2 and 1 per time *)
(* step.  Enthusiasm is counted in hundredths.  All arithmetic is exact.   *)
(***************************************************************************)
EXTENDS Integers, Sequences, FiniteSets, TLC

(* ------------------------------ bounds --------------------------------- *)

(* sectors in the ring *)
NumSectors == 3

(* horizon of the runs that tick by mixed amounts *)
MaxTime == 7

(* horizon of the runs that tick by wave_speed *)
MaxLongTime == 48

(* commands the caller issues in one run *)
MaxCalls == 2

(* ------------------------- program constants --------------------------- *)

(* 1.0, the ceiling of energy and fatigue *)
One == 400

(* enthusiasm 1.0 *)
EnthusiasmScale == 100

(* this.energy = 0.5 *)
InitialEnergy == 200

(* this.energy + dt * 0.1 *)
EnergyRegen == 2

(* this.fatigue - dt * 0.05 *)
FatigueDecay == 1

(* this.fatigue + 0.1 *)
FatigueGain == 40

(* readiness > 0.3 *)
ReadyThreshold == 120

(* this.wave_timer > 0.2 *)
AnticipationDelay == 4

(* this.timer > 0.5 *)
AnticipationTimeout == 10

(* this.timer > 1.5 *)
StandingDuration == 30

(* boost_energy(amount = 0.3) *)
BoostAmount == 120

(* this.distractions - 0.1 *)
BoostDistractionDrop == 40

(* VENUE_CONFIGS[soccer] *)
wave_speed == 6

energy_drain == 80

base_enthusiasm == 70

(* the mascot's +0.3 distractions and the scoreboard's +0.2 energy *)
MascotDistraction == 120

ScoreboardEnergy == 80

(* cappedDt = Math.min(dt, 0.1) *)
FrameCap == 2

(* the elapsed times fed to update_game: 0.1 s, 0.25 s and 0.3 s *)
DtValues == {FrameCap, 5, 6}

(* Math.random() * 0.3 + (baseEnthusiasm - 0.15): the two ends of the draw *)
EnthusiasmValues == {base_enthusiasm - 15, base_enthusiasm + 14}

SectorIds == 0 .. (NumSectors - 1)

(* the sector ids a caller passes to boost_sector_energy *)
CallIds == (0 - 1) .. NumSectors

IDLE == "idle"

ANTICIPATING == "anticipating"

STANDING == "standing"

SEATED == "seated"

(* nothing stored under wave_game_save *)
NoSave == <<>>

(* a string JSON.parse rejects *)
Garbage == <<0 - 1>>

(* the snapshot of a game just initialised *)
FreshSave == <<0, 0, 0, 0, 0>>

VARIABLES
    sectors,              \* this.sectors: sector id -> MockCrowdSector
    score,
    combo,
    max_combo,
    wave_active,
    wave_start_sector,
    current_wave_sector,
    wave_timer,
    time_elapsed,
    successful_waves,
    failed_waves,
    events,               \* this.events, oldest first
    savedData,            \* the string under wave_game_save
    result,               \* what the last API call returned
    calls,                \* commands issued so far
    peak_combo,           \* the largest value combo has held since init
    pyodide,              \* main.js: the Pyodide runtime, null until loaded
    useMockEngine,        \* main.js: calls go to mockGameAPI
    pc,                   \* main.js: where main() and its handlers stand
    resolved,             \* main.js: what await initPyodide() gave
    engines,              \* the engines that have received a call
    capped,               \* no update since init was fed more than the cap
    isGameRunning,        \* main.js: the frame loop is on
    isPaused,
    isTabVisible,
    lastTime,             \* main.js: the last frame's timestamp, 0 when reset
    lastHiddenUpdateTime,
    animationId,          \* main.js: the last frame request, 0 for null
    eventIntervals,       \* main.js: the interval ids startEventTimers keeps
    gameState,            \* main.js: "null" until an update is parsed
    touchStartSector,
    clock,                \* the browser's clock, performance.now()
    pending,              \* the frame requests neither run nor cancelled
    timers,               \* the intervals set and not cleared
    delivered             \* the events the last step gave handleGameEvent

game == <<sectors, score, combo, max_combo, wave_active, wave_start_sector,
          current_wave_sector, wave_timer, time_elapsed, successful_waves,
          failed_waves, events>>

vars == <<sectors, score, combo, max_combo, wave_active, wave_start_sector,
          current_wave_sector, wave_timer, time_elapsed, successful_waves,
          failed_waves, events, savedData, result, calls, peak_combo,
          pyodide, useMockEngine, pc, resolved, engines, capped,
          isGameRunning, isPaused, isTabVisible, lastTime,
          lastHiddenUpdateTime, animationId, eventIntervals, gameState,
          touchStartSector, clock, pending, timers, delivered>>

(* the state main.js keeps about the engine it drives *)
session == <<pyodide, useMockEngine, pc, resolved, engines>>

(* the globals of main.js that the frame loop and the handlers keep *)
page == <<isGameRunning, isPaused, isTabVisible, lastTime,
          lastHiddenUpdateTime, animationId, eventIntervals, gameState,
          touchStartSector>>

(* the browser's side of the page: its clock, frame requests and intervals *)
browser == <<clock, pending, timers>>

ui == <<page, browser, delivered>>

(* what a run of engine calls alone leaves as it is *)
shell == <<session, capped, ui>>

(* ------------------------------ helpers -------------------------------- *)

Min(a, b) == IF a < b THEN a ELSE b

Max(a, b) == IF a > b THEN a ELSE b

(* what an API call returned: start_wave_at's success, load_game's status  *)
(* (loaded or error), get_events' list                                     *)
Returned(op, success, evs) == [op |-> op, success |-> success, events |-> evs]

(* --------------------------- MockCrowdSector --------------------------- *)

MockCrowdSector(enthusiasm) ==
    [state |-> IDLE, energy |-> InitialEnergy, fatigue |-> 0,
     enthusiasm |-> enthusiasm, distractions |-> 0, timer |-> 0]

NewSectors == [SectorIds -> {MockCrowdSector(e) : e \in EnthusiasmValues}]

sit_down(s) == [s EXCEPT !.state = SEATED, !.timer = 0]

RecoverUnclamped(s, dt) ==
    [s EXCEPT !.fatigue = s.fatigue - FatigueDecay * dt,
              !.energy = s.energy + EnergyRegen * dt]

Recover(s, dt) ==
    [s EXCEPT !.fatigue = IF s.fatigue > 0
                          THEN Max(0, s.fatigue - FatigueDecay * dt)
                          ELSE s.fatigue,
              !.energy = IF s.energy < One
                         THEN Min(One, s.energy + EnergyRegen * dt)
                         ELSE s.energy]

TimedTransitionStandingToIdle(s, dt) ==
    IF s.state \in {STANDING, ANTICIPATING}
    THEN IF s.timer + dt > AnticipationTimeout
         THEN [s EXCEPT !.state = IDLE, !.timer = 0]
         ELSE [s EXCEPT !.timer = s.timer + dt]
    ELSE s

TimedTransitionAtLimit(s, dt) ==
    IF s.state = STANDING
    THEN IF s.timer + dt >= StandingDuration
         THEN sit_down(s)
         ELSE [s EXCEPT !.timer = s.timer + dt]
    ELSE IF s.state = ANTICIPATING
    THEN IF s.timer + dt > AnticipationTimeout
         THEN [s EXCEPT !.state = IDLE, !.timer = 0]
         ELSE [s EXCEPT !.timer = s.timer + dt]
    ELSE s

TimedTransition(s, dt) ==
    IF s.state = STANDING
    THEN IF s.timer + dt > StandingDuration
         THEN sit_down(s)
         ELSE [s EXCEPT !.timer = s.timer + dt]
    ELSE IF s.state = ANTICIPATING
    THEN IF s.timer + dt > AnticipationTimeout
         THEN [s EXCEPT !.state = IDLE, !.timer = 0]
         ELSE [s EXCEPT !.timer = s.timer + dt]
    ELSE s

(* MockCrowdSector.update(dt) *)
sector_update(s, dt) == TimedTransition(Recover(s, dt), dt)

ReadinessIgnoringDistractions(s) ==
    s.energy * s.enthusiasm - EnthusiasmScale * s.fatigue

(* readiness, times 400 x 100 *)
Readiness(s) ==
    s.energy * s.enthusiasm - EnthusiasmScale * (s.fatigue + s.distractions)

CanWaveSeatedOnly(s) ==
    /\ Readiness(s) > ReadyThreshold * EnthusiasmScale
    /\ s.state = SEATED

can_wave(s) ==
    /\ Readiness(s) > ReadyThreshold * EnthusiasmScale
    /\ (s.state = IDLE \/ s.state = SEATED)

(* MockCrowdSector.start_wave(): the sector when the call returns true *)
start_wave(s) == [s EXCEPT !.state = ANTICIPATING, !.timer = 0]

StandUpWithoutDrain(s) ==
    IF s.state = ANTICIPATING
    THEN [s EXCEPT !.state = STANDING, !.timer = 0]
    ELSE s

stand_up(s) ==
    IF s.state = ANTICIPATING
    THEN [s EXCEPT !.state = STANDING, !.timer = 0,
                   !.energy = Max(0, s.energy - energy_drain),
                   !.fatigue = Min(One, s.fatigue + FatigueGain)]
    ELSE s

BoostEnergyUncapped(s) ==
    [s EXCEPT !.energy = s.energy + BoostAmount,
              !.distractions = Max(0, s.distractions - BoostDistractionDrop)]

boost_energy(s) ==
    [s EXCEPT !.energy = Min(One, s.energy + BoostAmount),
              !.distractions = Max(0, s.distractions - BoostDistractionDrop)]

(* ----------------------------- MockWaveGame ---------------------------- *)

(* new MockWaveGame(venue), nothing saved and no command issued yet *)
MockWaveGame ==
    /\ sectors \in NewSectors
    /\ score = 0
    /\ combo = 0
    /\ max_combo = 0
    /\ wave_active = FALSE
    /\ wave_start_sector = 0 - 1
    /\ current_wave_sector = 0 - 1
    /\ wave_timer = 0
    /\ time_elapsed = 0
    /\ successful_waves = 0
    /\ failed_waves = 0
    /\ events = <<>>
    /\ savedData = NoSave
    /\ result = Returned("init_game", TRUE, <<>>)
    /\ calls = 0
    /\ peak_combo = 0
    /\ capped = TRUE

(* main.js as loaded: no game started, no frame requested, no interval set *)
Page ==
    /\ isGameRunning = FALSE
    /\ isPaused = FALSE
    /\ isTabVisible = TRUE
    /\ lastTime = 0
    /\ lastHiddenUpdateTime = 0
    /\ animationId = 0
    /\ eventIntervals = <<>>
    /\ gameState = "null"
    /\ touchStartSector = 0 - 1
    /\ clock = 0
    /\ pending = {}
    /\ timers = {}
    /\ delivered = <<>>

(* a game on the mock engine: loadPyodide was not defined, main() is done  *)
Init ==
    /\ MockWaveGame
    /\ Page
    /\ pyodide = "null"
    /\ useMockEngine = TRUE
    /\ pc = "ready"
    /\ resolved = "true"
    /\ engines = {}

ScheduleEventAtHead(q, event_type, data, now) ==
    <<[type |-> event_type, data |-> data, time |-> now]>> \o q

(* schedule_event: the queue with the event appended *)
schedule_event(q, event_type, data, now) ==
    Append(q, [type |-> event_type, data |-> data, time |-> now])

(* this.game = new MockWaveGame(venueEnum) *)
InitGame ==
    /\ sectors' \in NewSectors
    /\ score' = 0
    /\ combo' = 0
    /\ max_combo' = 0
    /\ wave_active' = FALSE
    /\ wave_start_sector' = 0 - 1
    /\ current_wave_sector' = 0 - 1
    /\ wave_timer' = 0
    /\ time_elapsed' = 0
    /\ successful_waves' = 0
    /\ failed_waves' = 0
    /\ events' = <<>>
    /\ result' = Returned("init_game", TRUE, <<>>)
    /\ peak_combo' = 0
    /\ UNCHANGED savedData

(* mockGameAPI.init_game(), as a command of the caller *)
init_game ==
    /\ calls < MaxCalls
    /\ calls' = calls + 1
    /\ InitGame

start_wave_at(sector_id) ==
    /\ calls < MaxCalls
    /\ calls' = calls + 1
    /\ IF ~wave_active /\ can_wave(sectors[sector_id])
       THEN /\ sectors' = [sectors EXCEPT ![sector_id] = start_wave(@)]
            /\ wave_active' = TRUE
            /\ wave_start_sector' = sector_id
            /\ current_wave_sector' = sector_id
            /\ wave_timer' = 0
            /\ events' = schedule_event(events, "wave_started", <<sector_id>>,
                                        time_elapsed)
            /\ result' = Returned("start_wave_at", TRUE, <<>>)
       ELSE /\ result' = Returned("start_wave_at", FALSE, <<>>)
            /\ UNCHANGED <<sectors, wave_active, wave_start_sector,
                           current_wave_sector, wave_timer, events>>
    /\ UNCHANGED <<score, combo, max_combo, time_elapsed, successful_waves,
                   failed_waves, savedData, peak_combo>>

(* the sectors after the loop of sector.update(dt) *)
Updated(dt) == [i \in SectorIds |-> sector_update(sectors[i], dt)]

(* a stand-up that waits for the whole hand-off interval *)
StandsUpAfterHandOff(secs, wt) ==
    /\ secs[current_wave_sector].state = ANTICIPATING
    /\ wt > wave_speed

(* the wave's sector is stood up in this update *)
StandsUp(secs, wt) ==
    /\ secs[current_wave_sector].state = ANTICIPATING
    /\ wt > AnticipationDelay

AfterStandUp(secs, wt) ==
    IF StandsUp(secs, wt)
    THEN [secs EXCEPT ![current_wave_sector] = stand_up(@)]
    ELSE secs

SameSectorId == current_wave_sector

next_sector_id == (current_wave_sector + 1) % NumSectors

ParticipationPenalty(c) == 0 - 10 * c

(* 10 * this.combo *)
ParticipationPoints(c) == 10 * c

CompletionBonusWholeCombo(c) == 100 * (1 + c)

(* 100 * (1 + this.combo * 0.5): a whole number, which Math.floor keeps *)
CompletionBonus(c) == (100 * (2 + c)) \div 2

(* a complete_wave that leaves the wave running *)
CompleteWaveGoingRound(secs, c, sc, now) ==
    /\ sectors' = secs
    /\ successful_waves' = successful_waves + 1
    /\ score' = sc + CompletionBonus(c)
    /\ max_combo' = Max(max_combo, c)
    /\ combo' = c
    /\ events' = schedule_event(events, "wave_completed",
                                <<c, CompletionBonus(c)>>, now)
    /\ UNCHANGED <<wave_active, wave_start_sector, current_wave_sector,
                   failed_waves>>

(* complete_wave, on the sectors, combo and score the update has reached *)
complete_wave(secs, c, sc, now) ==
    /\ sectors' = secs
    /\ wave_active' = FALSE
    /\ successful_waves' = successful_waves + 1
    /\ score' = sc + CompletionBonus(c)
    /\ max_combo' = Max(max_combo, c)
    /\ combo' = c
    /\ events' = schedule_event(events, "wave_completed",
                                <<c, CompletionBonus(c)>>, now)
    /\ UNCHANGED <<wave_start_sector, current_wave_sector, failed_waves>>

(* a fail_wave that does not count the failure *)
FailWaveUncounted(secs, sc, now) ==
    /\ sectors' = secs
    /\ wave_active' = FALSE
    /\ combo' = 0
    /\ score' = sc
    /\ events' = schedule_event(events, "wave_failed",
                                <<current_wave_sector>>, now)
    /\ UNCHANGED <<wave_start_sector, current_wave_sector, max_combo,
                   successful_waves, failed_waves>>

(* fail_wave, on the sectors and score the update has reached *)
fail_wave(secs, sc, now) ==
    /\ sectors' = secs
    /\ wave_active' = FALSE
    /\ failed_waves' = failed_waves + 1
    /\ combo' = 0
    /\ score' = sc
    /\ events' = schedule_event(events, "wave_failed",
                                <<current_wave_sector>>, now)
    /\ UNCHANGED <<wave_start_sector, current_wave_sector, max_combo,
                   successful_waves>>

(* a hand-off that lets the wave timer run on *)
HandOffKeepingTimer(secs, c, sc) ==
    /\ sectors' = [secs EXCEPT ![next_sector_id] = start_wave(@)]
    /\ current_wave_sector' = next_sector_id
    /\ wave_timer' = wave_timer
    /\ combo' = c
    /\ score' = sc
    /\ UNCHANGED <<wave_active, wave_start_sector, max_combo,
                   successful_waves, failed_waves, events>>

(* next_sector.start_wave() returned true *)
HandOff(secs, c, sc) ==
    /\ sectors' = [secs EXCEPT ![next_sector_id] = start_wave(@)]
    /\ current_wave_sector' = next_sector_id
    /\ wave_timer' = 0
    /\ combo' = c
    /\ score' = sc
    /\ UNCHANGED <<wave_active, wave_start_sector, max_combo,
                   successful_waves, failed_waves, events>>

(* MockWaveGame.update(dt), for runs that end at time limit *)
update(limit, dt) ==
    /\ time_elapsed + dt <= limit
    /\ time_elapsed' = time_elapsed + dt
    /\ result' = Returned("update_game", TRUE, <<>>)
    /\ UNCHANGED <<savedData, calls>>
    /\ IF ~wave_active
       THEN /\ sectors' = Updated(dt)
            /\ UNCHANGED <<score, combo, max_combo, wave_active,
                           wave_start_sector, current_wave_sector, wave_timer,
                           successful_waves, failed_waves, events, peak_combo>>
       ELSE LET wt   == wave_timer + dt
                secs == AfterStandUp(Updated(dt), wt)
                c    == IF StandsUp(Updated(dt), wt) THEN combo + 1 ELSE combo
                sc   == IF StandsUp(Updated(dt), wt)
                        THEN score + ParticipationPoints(c) ELSE score
            IN  /\ peak_combo' = Max(peak_combo, c)
                /\ IF wt >= wave_speed
                   THEN IF next_sector_id = wave_start_sector
                        THEN /\ complete_wave(secs, c, sc, time_elapsed + dt)
                             /\ wave_timer' = wt
                        ELSE IF can_wave(secs[next_sector_id])
                        THEN HandOff(secs, c, sc)
                        ELSE /\ fail_wave(secs, sc, time_elapsed + dt)
                             /\ wave_timer' = wt
                   ELSE /\ sectors' = secs
                        /\ wave_timer' = wt
                        /\ combo' = c
                        /\ score' = sc
                        /\ UNCHANGED <<max_combo, wave_active, wave_start_sector,
                                       current_wave_sector, successful_waves,
                                       failed_waves, events>>

update_game(dt) == update(MaxTime, dt)

(* update_game(wave_speed): one hand-off interval per call *)
LongTick == update(MaxLongTime, wave_speed)

boost_sector_energy(sector_id) ==
    /\ calls < MaxCalls
    /\ calls' = calls + 1
    /\ result' = Returned("boost_sector_energy", TRUE, <<>>)
    /\ sectors' = IF sector_id >= 0 /\ sector_id < NumSectors
                  THEN [sectors EXCEPT ![sector_id] = boost_energy(@)]
                  ELSE sectors
    /\ UNCHANGED <<score, combo, max_combo, wave_active, wave_start_sector,
                   current_wave_sector, wave_timer, time_elapsed,
                   successful_waves, failed_waves, events, savedData,
                   peak_combo>>

(* a get_events that hands the queue over and keeps it *)
GetEventsKeepingQueue ==
    /\ result' = Returned("get_events", TRUE, events)
    /\ UNCHANGED <<game, savedData, peak_combo>>

(* MockWaveGame.get_events(): the queue is copied, emptied and returned *)
GetEvents ==
    /\ result' = Returned("get_events", TRUE, events)
    /\ events' = <<>>
    /\ UNCHANGED <<sectors, score, combo, max_combo, wave_active,
                   wave_start_sector, current_wave_sector, wave_timer,
                   time_elapsed, successful_waves, failed_waves, savedData,
                   peak_combo>>

(* mockGameAPI.get_events(), as a command of the caller *)
get_events ==
    /\ calls < MaxCalls
    /\ calls' = calls + 1
    /\ GetEvents

(* a snapshot that leaves the score out *)
SaveStateWithoutScore ==
    <<0, combo, max_combo, successful_waves, failed_waves>>

(* save_state(): the counters of the JSON string it returns *)
save_state == <<score, combo, max_combo, successful_waves, failed_waves>>

(* JSON.parse(json_str) returns an object *)
Parses(json_str) == Len(json_str) = 5

(* mockGameAPI.save_game(), the string kept under wave_game_save *)
SaveGame ==
    /\ result' = Returned("save_game", TRUE, <<>>)
    /\ savedData' = save_state
    /\ UNCHANGED <<game, peak_combo>>

(* save_game as a command of the caller *)
save_game ==
    /\ calls < MaxCalls
    /\ calls' = calls + 1
    /\ SaveGame

(* a load that resets the score before it parses the string *)
LoadGameClearingFirst(save_data) ==
    /\ IF Parses(save_data)
       THEN /\ score' = save_data[1]
            /\ max_combo' = save_data[3]
            /\ successful_waves' = save_data[4]
            /\ result' = Returned("load_game", TRUE, <<>>)
       ELSE /\ score' = 0
            /\ result' = Returned("load_game", FALSE, <<>>)
            /\ UNCHANGED <<max_combo, successful_waves>>
    /\ UNCHANGED <<sectors, combo, failed_waves, wave_active,
                   wave_start_sector, current_wave_sector, wave_timer,
                   time_elapsed, events, savedData, peak_combo>>

(* a load that also ends the wave in flight *)
LoadGameEndingWave(save_data) ==
    /\ IF Parses(save_data)
       THEN /\ score' = save_data[1]
            /\ max_combo' = save_data[3]
            /\ successful_waves' = save_data[4]
            /\ wave_active' = FALSE
            /\ result' = Returned("load_game", TRUE, <<>>)
       ELSE /\ result' = Returned("load_game", FALSE, <<>>)
            /\ UNCHANGED <<score, max_combo, successful_waves, wave_active>>
    /\ UNCHANGED <<sectors, combo, failed_waves,
                   wave_start_sector, current_wave_sector, wave_timer,
                   time_elapsed, events, savedData, peak_combo>>

(* mockGameAPI.load_game(save_data): load_state inside try, the error      *)
(* caught and reported                                                     *)
LoadGame(save_data) ==
    /\ IF Parses(save_data)
       THEN /\ score' = save_data[1]
            /\ max_combo' = save_data[3]
            /\ successful_waves' = save_data[4]
            /\ result' = Returned("load_game", TRUE, <<>>)
       ELSE /\ result' = Returned("load_game", FALSE, <<>>)
            /\ UNCHANGED <<score, max_combo, successful_waves>>
    /\ UNCHANGED <<sectors, combo, failed_waves, wave_active,
                   wave_start_sector, current_wave_sector, wave_timer,
                   time_elapsed, events, savedData, peak_combo>>

(* load_game putting the snapshot's combo back as well *)
LoadGameRestoringCombo(save_data) ==
    /\ calls < MaxCalls
    /\ calls' = calls + 1
    /\ IF Parses(save_data)
       THEN /\ score' = save_data[1]
            /\ combo' = save_data[2]
            /\ max_combo' = save_data[3]
            /\ successful_waves' = save_data[4]
            /\ result' = Returned("load_game", TRUE, <<>>)
       ELSE /\ result' = Returned("load_game", FALSE, <<>>)
            /\ UNCHANGED <<score, combo, max_combo, successful_waves>>
    /\ UNCHANGED <<sectors, failed_waves, wave_active,
                   wave_start_sector, current_wave_sector, wave_timer,
                   time_elapsed, events, savedData, peak_combo>>

(* load_game as a command of the caller *)
load_game(save_data) ==
    /\ calls < MaxCalls
    /\ calls' = calls + 1
    /\ LoadGame(save_data)

(* --------------------------- stadium events ---------------------------- *)

MascotTargetOnly(target) == {target}

MascotTargets(target) ==
    {(target + NumSectors - 1) % NumSectors, target, (target + 1) % NumSectors}

Mascot(s) ==
    [s EXCEPT !.distractions = Max(0, s.distractions + MascotDistraction)]

Scoreboard(s) ==
    [s EXCEPT !.energy = Min(One, Max(0, s.energy + ScoreboardEnergy))]

trigger_mascot(target) ==
    /\ calls < MaxCalls
    /\ calls' = calls + 1
    /\ result' = Returned("trigger_event", TRUE, <<>>)
    /\ sectors' = [i \in SectorIds |->
                     IF i \in MascotTargets(target) THEN Mascot(sectors[i])
                                                    ELSE sectors[i]]
    /\ events' = schedule_event(events, "mascot", <<target>>, time_elapsed)
    /\ UNCHANGED <<score, combo, max_combo, wave_active, wave_start_sector,
                   current_wave_sector, wave_timer, time_elapsed,
                   successful_waves, failed_waves, savedData, peak_combo>>

trigger_scoreboard ==
    /\ calls < MaxCalls
    /\ calls' = calls + 1
    /\ result' = Returned("trigger_event", TRUE, <<>>)
    /\ sectors' = [i \in SectorIds |-> Scoreboard(sectors[i])]
    /\ events' = schedule_event(events, "scoreboard", <<>>, time_elapsed)
    /\ UNCHANGED <<score, combo, max_combo, wave_active, wave_start_sector,
                   current_wave_sector, wave_timer, time_elapsed,
                   successful_waves, failed_waves, savedData, peak_combo>>

(* ---------------------------- specifications --------------------------- *)

(* the strings a caller hands to load_game *)
SaveStrings == {savedData, FreshSave, Garbage} \ {NoSave}

Next ==
    \/ init_game /\ UNCHANGED shell
    \/ \E dt \in DtValues : update_game(dt) /\ UNCHANGED shell
    \/ \E sector_id \in SectorIds :
           start_wave_at(sector_id) /\ UNCHANGED shell
    \/ \E sector_id \in CallIds :
           boost_sector_energy(sector_id) /\ UNCHANGED shell
    \/ \E target \in SectorIds : trigger_mascot(target) /\ UNCHANGED shell
    \/ trigger_scoreboard /\ UNCHANGED shell
    \/ get_events /\ UNCHANGED shell
    \/ save_game /\ UNCHANGED shell
    \/ \E save_data \in SaveStrings : load_game(save_data) /\ UNCHANGED shell

Spec == Init /\ [][Next]_vars

LongNext ==
    \/ LongTick /\ UNCHANGED shell
    \/ \E sector_id \in SectorIds :
           start_wave_at(sector_id) /\ UNCHANGED shell
    \/ \E target \in SectorIds : trigger_mascot(target) /\ UNCHANGED shell
    \/ save_game /\ UNCHANGED shell
    \/ \E save_data \in SaveStrings : load_game(save_data) /\ UNCHANGED shell

LongSpec == Init /\ [][LongNext]_vars

(* saving and loading at any moment of a short game: the snapshot taken,  *)
(* a fresh one or a damaged one is loaded, between the caller's commands   *)
(* and the updates                                                         *)
SaveNext ==
    \/ \E dt \in DtValues : update_game(dt) /\ UNCHANGED shell
    \/ \E sector_id \in SectorIds :
           start_wave_at(sector_id) /\ UNCHANGED shell
    \/ SaveGame /\ UNCHANGED <<calls, shell>>
    \/ \E save_data \in SaveStrings :
           LoadGame(save_data) /\ UNCHANGED <<calls, shell>>

SaveSpec == Init /\ [][SaveNext]_vars

(* an elapsed time of 0.6 s, which the frame loop's cap never lets through: *)
(* two hand-off intervals, and more than the 0.5 s a sector stays          *)
(* Anticipating                                                            *)
BigDt == 12

(* the elapsed times of the runs that follow a wave frame by frame: the    *)
(* cap of 0.1 s, and 0.6 s                                                 *)
TickValues == {FrameCap, BigDt}

(* their horizon: one wave round the ring, started a frame into the game   *)
MaxTickTime == wave_speed * NumSectors + FrameCap

(* update_game(dt), recording whether dt was within the cap *)
Tick(dt) ==
    /\ update(MaxTickTime, dt)
    /\ capped' = (capped /\ dt <= FrameCap)

(* a game played from the keyboard, frame by frame: Space starts the wave   *)
(* at sector 0, the mascot distracts a sector, and no one reads the queue, *)
(* so it holds every event of the game                                     *)
TickNext ==
    \/ \E dt \in TickValues : Tick(dt) /\ UNCHANGED <<session, ui>>
    \/ start_wave_at(0) /\ UNCHANGED shell
    \/ \E target \in SectorIds : trigger_mascot(target) /\ UNCHANGED shell

(* the draws in which the sectors after sector 0 are of one mind *)
OneCrowd ==
    /\ Init
    /\ \A i, j \in SectorIds \ {0} : sectors[i].enthusiasm = sectors[j].enthusiasm

TickSpec == OneCrowd /\ [][TickNext]_vars

(* the elapsed times of the runs that outlast a sector's 1.5 s on its      *)
(* feet: the hand-off interval and 0.6 s                                   *)
SlowValues == {wave_speed, BigDt}

(* update_game(dt) over the long horizon *)
SlowTick(dt) ==
    /\ update(MaxLongTime, dt)
    /\ capped' = (capped /\ dt <= FrameCap)

SlowNext ==
    \/ \E dt \in SlowValues : SlowTick(dt) /\ UNCHANGED <<session, ui>>
    \/ start_wave_at(0) /\ UNCHANGED shell
    \/ \E sector_id \in SectorIds :
           boost_sector_energy(sector_id) /\ UNCHANGED shell
    \/ \E target \in SectorIds : trigger_mascot(target) /\ UNCHANGED shell

(* the frame loop keeps calling update_game *)
FairSlowSpec ==
    /\ OneCrowd
    /\ [][SlowNext]_vars
    /\ WF_vars(\E dt \in SlowValues : SlowTick(dt) /\ UNCHANGED <<session, ui>>)

(* -------------------------------- main.js ------------------------------ *)

(* the elapsed time updateGameState is called with: cappedDt, at its cap *)
FrameValues == {FrameCap}

(* the awaits of initPyodide, in order *)
AwaitPoints == <<"loadPyodide", "fetch", "text", "runPythonAsync">>

(* the engine a call goes to *)
Engine == IF useMockEngine THEN "mock" ELSE "pyodide"

(* main() before it calls initPyodide *)
MainInit ==
    /\ MockWaveGame
    /\ Page
    /\ pyodide = "null"
    /\ useMockEngine = FALSE
    /\ pc = "main"
    /\ resolved = "pending"
    /\ engines = {}

(* a catch block that reports the error and leaves the flag alone *)
CatchWithoutFallback ==
    /\ pc = "catch"
    /\ resolved' = "true"
    /\ pc' = "ready"
    /\ UNCHANGED <<useMockEngine, pyodide, engines>>

(* initPyodide: typeof loadPyodide === 'undefined' *)
initPyodide_enter ==
    /\ pc = "main"
    /\ \E defined \in BOOLEAN :
          IF defined
          THEN /\ pc' = AwaitPoints[1]
               /\ UNCHANGED <<useMockEngine, resolved>>
          ELSE /\ useMockEngine' = TRUE
               /\ resolved' = "true"
               /\ pc' = "ready"
    /\ UNCHANGED <<pyodide, engines>>

(* initPyodide: one await of the try block settles, fulfilled or rejected *)
initPyodide_await ==
    \E k \in 1 .. Len(AwaitPoints), fulfilled \in BOOLEAN :
        /\ pc = AwaitPoints[k]
        /\ pyodide' = IF k = 1 /\ fulfilled THEN "loaded" ELSE pyodide
        /\ pc' = IF ~fulfilled THEN "catch"
                 ELSE IF k < Len(AwaitPoints) THEN AwaitPoints[k + 1]
                 ELSE "ready"
        /\ resolved' = IF fulfilled /\ k = Len(AwaitPoints)
                       THEN "true" ELSE resolved
        /\ UNCHANGED <<useMockEngine, engines>>

(* initPyodide: the catch block *)
initPyodide_catch ==
    /\ pc = "catch"
    /\ useMockEngine' = TRUE
    /\ resolved' = "true"
    /\ pc' = "ready"
    /\ UNCHANGED <<pyodide, engines>>

(* if (useMockEngine) mockGameAPI.call(...) else pyodide.runPython(...):   *)
(* the Python engine's own state is not part of this model                 *)
Routed(call) ==
    /\ engines' = engines \cup {Engine}
    /\ UNCHANGED <<pyodide, useMockEngine, resolved>>
    /\ IF useMockEngine
       THEN call
       ELSE UNCHANGED <<game, savedData, result, calls, peak_combo>>

initGame ==
    /\ pc = "ready"
    /\ pc' = pc
    /\ Routed(init_game)

(* updateGameState: the update_game call *)
updateGameState(dt) ==
    /\ pc = "ready"
    /\ pc' = "updateGameState"
    /\ Routed(update_game(dt))

(* an updateGameState that does not call get_events *)
UpdateGameStateWithoutEvents ==
    /\ pc = "updateGameState"
    /\ pc' = "ready"
    /\ engines' = engines
    /\ UNCHANGED <<pyodide, useMockEngine, resolved>>
    /\ UNCHANGED <<game, savedData, result, calls, peak_combo>>

(* updateGameState: the get_events call that follows *)
updateGameState_events ==
    /\ pc = "updateGameState"
    /\ pc' = "ready"
    /\ Routed(GetEvents /\ UNCHANGED calls)

startWave(sectorId) ==
    /\ pc = "ready"
    /\ pc' = pc
    /\ Routed(start_wave_at(sectorId))

boostSector(sectorId) ==
    /\ pc = "ready"
    /\ pc' = pc
    /\ Routed(boost_sector_energy(sectorId))

triggerStadiumEvent(eventType, sectorId) ==
    /\ pc = "ready"
    /\ pc' = pc
    /\ Routed(IF eventType = "mascot" THEN trigger_mascot(sectorId)
                                      ELSE trigger_scoreboard)

MainNext ==
    \/ /\ initPyodide_enter
       /\ UNCHANGED <<game, savedData, result, calls, peak_combo, capped, ui>>
    \/ /\ initPyodide_await
       /\ UNCHANGED <<game, savedData, result, calls, peak_combo, capped, ui>>
    \/ /\ initPyodide_catch
       /\ UNCHANGED <<game, savedData, result, calls, peak_combo, capped, ui>>
    \/ initGame /\ UNCHANGED <<capped, ui>>
    \/ \E dt \in FrameValues : updateGameState(dt) /\ UNCHANGED <<capped, ui>>
    \/ updateGameState_events /\ UNCHANGED <<capped, ui>>
    \/ \E sectorId \in SectorIds : startWave(sectorId) /\ UNCHANGED <<capped, ui>>
    \/ \E sectorId \in CallIds : boostSector(sectorId) /\ UNCHANGED <<capped, ui>>
    \/ \E sectorId \in SectorIds :
           triggerStadiumEvent("mascot", sectorId) /\ UNCHANGED <<capped, ui>>
    \/ triggerStadiumEvent("scoreboard", 0 - 1) /\ UNCHANGED <<capped, ui>>

MainSpec == MainInit /\ [][MainNext]_vars

(* ------------------------ main.js: the running page -------------------- *)

(* HIDDEN_TAB_UPDATE_INTERVAL = 200 ms *)
HIDDEN_TAB_UPDATE_INTERVAL == 4

(* the time from one frame callback to the next: 0.05 s, and 0.25 s, which *)
(* is past the cap on dt and past the hidden-tab interval                  *)
FrameGaps == {1, 5}

(* the timestamp of the last frame of a run *)
MaxClock == 6

(* the sector getSectorAtPosition finds under the pointer: none off the    *)
(* stands, and none before the first update gave gameState                 *)
Positions == (0 - 1) .. 0

(* the sector a mascot of the page aims at: hoveredSector, or a random one *)
Targets == {0}

getSectorAtPosition(x) == IF gameState = "null" THEN 0 - 1 ELSE x

(* the id requestAnimationFrame or setInterval returns: one not in use *)
Requested(ids) == CHOOSE n \in 1 .. (Cardinality(ids) + 1) : n \notin ids

(* a step that makes no call into the engine *)
NoEngineCall ==
    UNCHANGED <<game, savedData, result, calls, peak_combo, capped, session>>

(* a handler that returns at its guard *)
Returns == NoEngineCall /\ delivered' = <<>> /\ UNCHANGED <<page, browser>>

(* what clearEventTimers leaves of the intervals set: clearInterval on    *)
(* each id of eventIntervals                                               *)
clearEventTimers ==
    {t \in timers :
        \A k \in 1 .. Len(eventIntervals) : eventIntervals[k] # t.id}

(* the two setInterval calls of startEventTimers, on the intervals set     *)
(* when they are made                                                      *)
SetIntervals(set) ==
    LET used == {t.id : t \in set}
        scoreboardInterval == Requested(used)
        mascotInterval == Requested(used \cup {scoreboardInterval})
    IN  /\ timers' = set \cup
                        {[id |-> scoreboardInterval, kind |-> "scoreboard"],
                         [id |-> mascotInterval, kind |-> "mascot"]}
        /\ eventIntervals' = <<scoreboardInterval, mascotInterval>>

startEventTimers == SetIntervals(clearEventTimers)

(* a startGameLoop without its guard *)
StartGameLoopUnguarded(running, requests) ==
    /\ isGameRunning' = TRUE
    /\ lastTime' = 0
    /\ animationId' = Requested(requests)
    /\ pending' = requests \cup {Requested(requests)}

(* startGameLoop, with the value of isGameRunning and the frame requests  *)
(* pending when it runs                                                    *)
startGameLoop(running, requests) ==
    IF running
    THEN /\ pending' = requests
         /\ UNCHANGED <<isGameRunning, lastTime, animationId>>
    ELSE /\ isGameRunning' = TRUE
         /\ lastTime' = 0
         /\ animationId' = Requested(requests)
         /\ pending' = requests \cup {Requested(requests)}

(* what stopGameLoop leaves of the frame requests:                         *)
(* cancelAnimationFrame(animationId)                                       *)
stopGameLoop == IF animationId # 0 THEN pending \ {animationId} ELSE pending

(* a cappedDt that lets dt through *)
CappedDtUncapped(dt) == dt

(* cappedDt = Math.min(dt, 0.1) *)
cappedDt(dt) == Min(dt, FrameCap)

togglePause ==
    /\ isPaused' = ~isPaused
    /\ lastTime' = IF isPaused THEN 0 ELSE lastTime

(* a command the page sends to the engine outside the frame callback *)
Sends(call) ==
    /\ pc = "ready"
    /\ call
    /\ delivered' = <<>>
    /\ UNCHANGED <<capped, page, browser>>

(* gameLoop(timestamp), up to and with the update_game call of             *)
(* updateGameState; the frame comes gap after the clock's last reading     *)
gameLoop(id, gap) ==
    LET timestamp == clock + gap
        dt == IF lastTime # 0 THEN timestamp - lastTime ELSE 0
        skipped == /\ ~isTabVisible
                   /\ ~isPaused
                   /\ timestamp - lastHiddenUpdateTime
                        < HIDDEN_TAB_UPDATE_INTERVAL
        again == Requested(pending \ {id})
    IN  /\ pc = "ready"
        /\ id \in pending
        /\ timestamp <= MaxClock
        /\ clock' = timestamp
        /\ delivered' = <<>>
        /\ UNCHANGED <<isGameRunning, isPaused, isTabVisible, eventIntervals,
                       gameState, touchStartSector, timers>>
        /\ IF ~isGameRunning
           THEN /\ pending' = pending \ {id}
                /\ UNCHANGED <<lastTime, lastHiddenUpdateTime, animationId>>
                /\ NoEngineCall
           ELSE /\ lastTime' = timestamp
                /\ IF skipped \/ isPaused
                   THEN /\ pending' = (pending \ {id}) \cup {again}
                        /\ animationId' = again
                        /\ UNCHANGED lastHiddenUpdateTime
                        /\ NoEngineCall
                   ELSE /\ lastHiddenUpdateTime' =
                              IF ~isTabVisible THEN timestamp
                                               ELSE lastHiddenUpdateTime
                        /\ pending' = pending \ {id}
                        /\ UNCHANGED animationId
                        /\ updateGameState(cappedDt(dt))
                        /\ capped' = (capped /\ cappedDt(dt) <= FrameCap)

(* gameLoop, from the get_events call of updateGameState on: gameState is  *)
(* parsed, every event goes to handleGameEvent, the next frame is asked    *)
gameLoop_events ==
    /\ updateGameState_events
    /\ gameState' = "state"
    /\ delivered' = events
    /\ animationId' = Requested(pending)
    /\ pending' = pending \cup {Requested(pending)}
    /\ UNCHANGED <<capped, isGameRunning, isPaused, isTabVisible, lastTime,
                   lastHiddenUpdateTime, eventIntervals, touchStartSector,
                   clock, timers>>

(* visibilitychange; performance.now() reads the clock *)
visibilitychange(hidden) ==
    /\ pc = "ready"
    /\ isTabVisible' = ~hidden
    /\ lastTime' = IF hidden THEN lastTime ELSE 0
    /\ lastHiddenUpdateTime' = IF hidden THEN clock ELSE 0
    /\ delivered' = <<>>
    /\ NoEngineCall
    /\ UNCHANGED <<isGameRunning, isPaused, animationId, eventIntervals,
                   gameState, touchStartSector, browser>>

(* canvas click at a point over sector x, or over none *)
click(x) ==
    /\ pc = "ready"
    /\ IF isGameRunning /\ ~isPaused /\ getSectorAtPosition(x) >= 0
       THEN Sends(startWave(getSectorAtPosition(x)))
       ELSE Returns

(* canvas contextmenu *)
contextmenu(x) ==
    /\ pc = "ready"
    /\ IF isGameRunning /\ ~isPaused /\ getSectorAtPosition(x) >= 0
       THEN Sends(boostSector(getSectorAtPosition(x)))
       ELSE Returns

(* canvas touchstart *)
touchstart(x) ==
    /\ pc = "ready"
    /\ IF isGameRunning /\ ~isPaused
       THEN /\ touchStartSector' = getSectorAtPosition(x)
            /\ delivered' = <<>>
            /\ NoEngineCall
            /\ UNCHANGED <<isGameRunning, isPaused, isTabVisible, lastTime,
                           lastHiddenUpdateTime, animationId, eventIntervals,
                           gameState, browser>>
       ELSE Returns

(* canvas touchend, after a long press (over 500 ms) or a short tap *)
touchend(long) ==
    /\ pc = "ready"
    /\ IF isGameRunning /\ ~isPaused
       THEN /\ touchStartSector' = 0 - 1
            /\ delivered' = <<>>
            /\ UNCHANGED <<isGameRunning, isPaused, isTabVisible, lastTime,
                           lastHiddenUpdateTime, animationId, eventIntervals,
                           gameState, browser, capped>>
            /\ IF touchStartSector >= 0
               THEN IF long THEN boostSector(touchStartSector)
                            ELSE startWave(touchStartSector)
               ELSE NoEngineCall
       ELSE Returns

(* the pause and resume buttons *)
pauseButton ==
    /\ pc = "ready"
    /\ togglePause
    /\ delivered' = <<>>
    /\ NoEngineCall
    /\ UNCHANGED <<isGameRunning, isTabVisible, lastHiddenUpdateTime,
                   animationId, eventIntervals, gameState, touchStartSector,
                   browser>>

(* the keys that reach the game: Space, P, and Escape with the help        *)
(* overlay closed                                                          *)
KeyCodes == {"Space", "KeyP", "Escape"}

keydown(code) ==
    /\ pc = "ready"
    /\ IF ~isGameRunning
       THEN Returns
       ELSE IF code = "Space" /\ ~isPaused
       THEN Sends(startWave(0))
       ELSE IF code = "KeyP" \/ (code = "Escape" /\ ~isPaused)
       THEN pauseButton
       ELSE Returns

(* the mascot button, with the sector it aims at *)
mascotButton(targetSector) ==
    /\ pc = "ready"
    /\ IF gameState # "null"
       THEN Sends(triggerStadiumEvent("mascot", targetSector))
       ELSE Returns

(* the scoreboard button *)
scoreboardButton ==
    /\ pc = "ready"
    /\ IF gameState # "null"
       THEN Sends(triggerStadiumEvent("scoreboard", 0 - 1))
       ELSE Returns

(* the callback of an interval startEventTimers has set, when it fires:    *)
(* the 30 s and 45 s between two firings are not counted on the clock      *)
intervalCallback(t, target) ==
    /\ pc = "ready"
    /\ t \in timers
    /\ IF isGameRunning /\ ~isPaused /\ gameState # "null"
       THEN Sends(triggerStadiumEvent(t.kind,
                     IF t.kind = "mascot" THEN target ELSE 0 - 1))
       ELSE Returns

(* the sectors of a crowd whose enthusiasm draws all came out the same *)
EvenCrowd == {[i \in SectorIds |-> MockCrowdSector(e)] : e \in EnthusiasmValues}

(* initGame() of a game the player starts or restarts, with an even crowd *)
newGame ==
    /\ pc = "ready"
    /\ pc' = pc
    /\ Routed(InitGame /\ sectors' \in EvenCrowd /\ UNCHANGED calls)
    /\ UNCHANGED capped

startGame ==
    /\ newGame
    /\ startEventTimers
    /\ startGameLoop(isGameRunning, pending)
    /\ delivered' = <<>>
    /\ UNCHANGED <<isPaused, isTabVisible, lastHiddenUpdateTime, gameState,
                   touchStartSector, clock>>

restartGame ==
    /\ newGame
    /\ isPaused' = FALSE
    /\ startEventTimers
    /\ startGameLoop(FALSE, stopGameLoop)
    /\ delivered' = <<>>
    /\ UNCHANGED <<isTabVisible, lastHiddenUpdateTime, gameState,
                   touchStartSector, clock>>

returnToSetup ==
    /\ pc = "ready"
    /\ isGameRunning' = FALSE
    /\ pending' = stopGameLoop
    /\ animationId' = 0
    /\ timers' = clearEventTimers
    /\ eventIntervals' = <<>>
    /\ isPaused' = FALSE
    /\ gameState' = "null"
    /\ delivered' = <<>>
    /\ NoEngineCall
    /\ UNCHANGED <<isTabVisible, lastTime, lastHiddenUpdateTime,
                   touchStartSector, clock>>

UiNext ==
    \/ \E id \in pending, gap \in FrameGaps : gameLoop(id, gap)
    \/ gameLoop_events
    \/ \E hidden \in BOOLEAN : visibilitychange(hidden)
    \/ \E x \in Positions : click(x)
    \/ \E x \in Positions : contextmenu(x)
    \/ \E x \in Positions : touchstart(x)
    \/ \E long \in BOOLEAN : touchend(long)
    \/ pauseButton
    \/ \E code \in KeyCodes : keydown(code)
    \/ \E targetSector \in Targets : mascotButton(targetSector)
    \/ scoreboardButton
    \/ \E t \in timers, target \in Targets : intervalCallback(t, target)
    \/ startGame
    \/ restartGame
    \/ returnToSetup

(* the page once main() is done, on the mock engine, before the player     *)
(* starts a game                                                           *)
UiInit == Init /\ sectors \in EvenCrowd

UiSpec == UiInit /\ [][UiNext]_vars

(* ------------------------------ properties ----------------------------- *)

(* C1: in every reachable state every sector has energy in [0,1], fatigue *)
(* in [0,1] and distractions >= 0.                                         *)
C1_SectorRanges ==
    \A i \in SectorIds :
        /\ sectors[i].energy >= 0 /\ sectors[i].energy <= 400
        /\ sectors[i].fatigue >= 0 /\ sectors[i].fatigue <= 400
        /\ sectors[i].distractions >= 0

(* a sector whose energy sits at the ceiling after two boosts that would   *)
(* have carried it past 1.0, with fatigue and distractions at the floor    *)
C1_Witness ==
    \E i \in SectorIds :
        /\ sectors[i].energy = 400
        /\ sectors[i].fatigue = 0
        /\ sectors[i].distractions = 0
        /\ time_elapsed > 0
        /\ calls >= 2

(* the readiness rule as the claims word it, in the model's units:         *)
(* (energy x enthusiasm) - (fatigue + distractions) > 0.3, that is         *)
(* energy * enthusiasm - 100 * (fatigue + distractions) > 12000, and the   *)
(* state is Idle or Seated                                                 *)
StatedReady(s) ==
    /\ s.energy * s.enthusiasm - 100 * (s.fatigue + s.distractions) > 12000
    /\ s.state \in {"idle", "seated"}

(* C2: start_wave_at called while a wave is active, or on a sector that is *)
(* not ready, returns success = false and changes nothing in the engine:   *)
(* no sector, cursor, timer, counter or queued event.                      *)
C2_RefusedStartChangesNothing ==
    [][\A id \in SectorIds :
          (start_wave_at(id) /\ (wave_active \/ ~StatedReady(sectors[id])))
              => (result'.success = FALSE /\ UNCHANGED game)]_vars

(* a refused start on a sector that is not ready, no wave being active     *)
C2_Witness ==
    /\ result.op = "start_wave_at"
    /\ result.success = FALSE
    /\ ~wave_active
    /\ \E i \in SectorIds : ~StatedReady(sectors[i])
    /\ events = <<>>

(* C3: with no wave active and the target ready, start_wave_at returns     *)
(* true; the target is Anticipating with its timer at 0, wave_active       *)
(* holds, both cursors are the target, wave_timer is 0 and exactly one     *)
(* wave_started event carrying the target has been appended.               *)
C3_AcceptedStart ==
    [][\A id \in SectorIds :
          (start_wave_at(id) /\ ~wave_active /\ StatedReady(sectors[id]))
              => /\ result'.success = TRUE
                 /\ sectors'[id].state = "anticipating"
                 /\ sectors'[id].timer = 0
                 /\ \A j \in SectorIds \ {id} : sectors'[j] = sectors[j]
                 /\ wave_active' = TRUE
                 /\ wave_start_sector' = id
                 /\ current_wave_sector' = id
                 /\ wave_timer' = 0
                 /\ events' = Append(events,
                        [type |-> "wave_started", data |-> <<id>>,
                         time |-> time_elapsed])]_vars

(* an accepted start some time into the game *)
C3_Witness ==
    /\ result.op = "start_wave_at"
    /\ result.success = TRUE
    /\ wave_active
    /\ wave_start_sector = current_wave_sector
    /\ sectors[wave_start_sector].state = "anticipating"
    /\ sectors[wave_start_sector].timer = 0
    /\ time_elapsed > 0
    /\ Len(events) = 1
    /\ events[1].type = "wave_started"

(* the elapsed time a step fed to update *)
StepDt == time_elapsed' - time_elapsed

(* the step is a call of update_game *)
IsTick ==
    /\ result'.op = "update_game"
    /\ time_elapsed' > time_elapsed

(* sector i is started in this step: by an accepted start_wave_at, or by   *)
(* the hand-off of an update moving the cursor onto it                     *)
Started(i) ==
    \/ start_wave_at(i) /\ result'.success
    \/ /\ IsTick
       /\ wave_active
       /\ wave_timer + StepDt >= 6
       /\ i = (current_wave_sector + 1) % NumSectors
       /\ wave_active'
       /\ current_wave_sector' = i

(* the state changes the state machine lists, for sector i in this step *)
ListedChange(i) ==
    LET a == sectors[i].state
        b == sectors'[i].state
    IN  \/ a \in {"idle", "seated"} /\ b = "anticipating" /\ Started(i)
        \/ /\ a = "anticipating" /\ b = "standing"
           /\ IsTick /\ wave_active /\ i = current_wave_sector
           /\ sectors[i].timer + StepDt >= 4
        \/ a = "anticipating" /\ b = "idle" /\ IsTick
        \/ a = "standing" /\ b = "seated" /\ IsTick

(* Standing runs out in this update's sector loop and the hand-off of the  *)
(* same update starts the sector                                           *)
SeatedAndStarted(i) ==
    /\ sectors[i].state = "standing"
    /\ sectors'[i].state = "anticipating"
    /\ IsTick
    /\ sectors[i].timer + StepDt > 30
    /\ Started(i)

(* C4 as stated: in every step every sector keeps its state or makes one   *)
(* of the listed changes: Idle or Seated to Anticipating through a         *)
(* successful start, Anticipating to Standing for the wave's sector after  *)
(* 0.2 s, Anticipating to Idle, Standing to Seated.                        *)
C4_AsStated ==
    [][\A i \in SectorIds :
          sectors'[i].state # sectors[i].state => ListedChange(i)]_vars

(* C4, amended: the same, with one more change a single update can show:   *)
(* Standing to Anticipating, when the sector is seated by the update's     *)
(* sector loop and then started by its hand-off.  A sector never goes from *)
(* Idle or Seated to Standing, and leaves Idle or Seated only when         *)
(* started.                                                                *)
C4_StateMachine ==
    [][\A i \in SectorIds :
          sectors'[i].state # sectors[i].state
              => (ListedChange(i) \/ SeatedAndStarted(i))]_vars

(* a second wave under way: a sector started from Seated while another is  *)
(* seated after standing                                                   *)
C4_Witness ==
    \E i, j \in SectorIds :
        /\ sectors[i].state = "anticipating"
        /\ sectors[j].state = "seated"
        /\ successful_waves + failed_waves > 0
        /\ wave_active

(* the wave's sector is Anticipating and still so when the wave step of    *)
(* this update runs (at most 0.5 s in Anticipating, dt included), and the  *)
(* wave timer, dt added, exceeds 0.2 s                                     *)
StandUpDue ==
    /\ IsTick
    /\ wave_active
    /\ sectors[current_wave_sector].state = "anticipating"
    /\ sectors[current_wave_sector].timer + StepDt <= 10
    /\ wave_timer + StepDt > 4

(* the stood-up sector: Standing, energy recovered by 0.1/s then debited   *)
(* by 0.2, fatigue decayed by 0.05/s then credited by 0.1, both in [0,1]   *)
StoodUp(i) ==
    /\ sectors'[i].state = "standing"
    /\ sectors'[i].energy =
           Max(0, Min(400, sectors[i].energy + 2 * StepDt) - 80)
    /\ sectors'[i].fatigue =
           Min(400, Max(0, sectors[i].fatigue - StepDt) + 40)

(* C5 as stated: in an update in which the wave's sector is Anticipating   *)
(* and the wave timer exceeds 0.2 s, the sector becomes Standing with      *)
(* energy debited by 0.2 and fatigue credited by 0.1, combo rises by       *)
(* exactly 1 and score by 10 x the new combo.                              *)
C5_AsStated ==
    [][StandUpDue =>
          /\ StoodUp(current_wave_sector)
          /\ combo' = combo + 1
          /\ score' = score + 10 * (combo + 1)]_vars

(* C5, amended: the same, except that the hand-off of the same update acts *)
(* on top of the stand-up: a failed hand-off leaves combo at 0 and a       *)
(* completion adds its bonus to score.                                     *)
C5_StandUpScores ==
    [][StandUpDue =>
          /\ StoodUp(current_wave_sector)
          /\ combo' = IF failed_waves' > failed_waves THEN 0 ELSE combo + 1
          /\ score' = score + 10 * (combo + 1)
                       + IF successful_waves' > successful_waves
                         THEN 100 + 50 * (combo + 1) ELSE 0]_vars

(* Scenario B: one update of 0.25 s after a start from combo 0 and score 0 *)
C5_Witness ==
    /\ time_elapsed = 5
    /\ wave_active
    /\ wave_timer = 5
    /\ sectors[current_wave_sector].state = "standing"
    /\ sectors[current_wave_sector].energy = 130
    /\ sectors[current_wave_sector].fatigue = 40
    /\ combo = 1
    /\ score = 10

(* the time of the last wave_started event still in the queue *)
StartedAt ==
    LET idx == {k \in 1 .. Len(events) : events[k].type = "wave_started"}
    IN  events[CHOOSE k \in idx : \A j \in idx : j <= k].time

(* an update whose hand-off check is due and finds the sector after the    *)
(* cursor to be the start sector                                           *)
FullCircleDue ==
    /\ IsTick
    /\ wave_active
    /\ wave_timer + StepDt >= 6
    /\ (current_wave_sector + 1) % NumSectors = wave_start_sector

Completes ==
    /\ IsTick
    /\ successful_waves' # successful_waves

(* C6: an update whose hand-off check finds the next sector to be the      *)
(* start sector ends the wave: wave_active is false, successful_waves is   *)
(* up by exactly 1, failed_waves is unchanged and exactly one event, a     *)
(* wave_completed, is appended.  Ticked by 0.3 s, a wave over a ring of N  *)
(* sectors (N = 3: the third tick) completes on the N-th tick after its    *)
(* start if it is still active then, and not before.                       *)
C6_FullCircleCompletes ==
    [][/\ FullCircleDue =>
            /\ wave_active' = FALSE
            /\ successful_waves' = successful_waves + 1
            /\ failed_waves' = failed_waves
            /\ Len(events') = Len(events) + 1
            /\ SubSeq(events', 1, Len(events)) = events
            /\ events'[Len(events')].type = "wave_completed"
       /\ Completes => time_elapsed' = StartedAt + NumSectors * 6
       /\ (IsTick /\ wave_active /\ time_elapsed' = StartedAt + NumSectors * 6)
              => Completes]_vars

(* Scenario C: a wave started at sector 0 at time 0 and ticked by 0.3 s    *)
(* has gone once round the ring: one wave_started, one wave_completed      *)
C6_Witness ==
    /\ time_elapsed = NumSectors * 6
    /\ ~wave_active
    /\ wave_start_sector = 0
    /\ successful_waves = 1
    /\ failed_waves = 0
    /\ Len(events) = 2
    /\ events[1].type = "wave_started"
    /\ events[1].time = 0
    /\ events[2].type = "wave_completed"

(* C7: complete_wave, called with the combo as the stand-up of the same    *)
(* update left it, adds floor(100 x (1 + combo x 0.5)) = 100 + 50 x combo  *)
(* to score, sets max_combo to max(max_combo, combo), reports              *)
(* <<combo, bonus>> in the wave_completed event and leaves combo as it     *)
(* was: positive, so that it carries into the next wave.                   *)
C7_CompleteWave ==
    [][Completes =>
          LET c  == IF StandUpDue THEN combo + 1 ELSE combo
              sc == IF StandUpDue THEN score + 10 * c ELSE score
          IN  /\ score' = sc + 100 + 50 * c
              /\ max_combo' = (IF c > max_combo THEN c ELSE max_combo)
              /\ events'[Len(events')].data = <<c, 100 + 50 * c>>
              /\ combo' = c
              /\ combo' > 0]_vars

(* a completed ring of N sectors from combo 0 and score 0: combo N kept,   *)
(* the odd-combo bonus floored (N = 3: bonus 250, score 60 + 250)          *)
C7_Witness ==
    /\ successful_waves = 1
    /\ ~wave_active
    /\ combo = NumSectors
    /\ max_combo = NumSectors
    /\ events[Len(events)].type = "wave_completed"
    /\ events[Len(events)].data = <<NumSectors, (100 * (2 + NumSectors)) \div 2>>
    /\ score = 5 * NumSectors * (NumSectors + 1)
                 + (100 * (2 + NumSectors)) \div 2

(* the sector after the cursor *)
Blocked == (current_wave_sector + 1) % NumSectors

(* an update whose hand-off is due, not onto the start sector, and whose   *)
(* next sector, as the update's sector loop leaves it, is not ready        *)
FailedHandOffDue ==
    /\ IsTick
    /\ wave_active
    /\ wave_timer + StepDt >= 6
    /\ Blocked # wave_start_sector
    /\ ~StatedReady(sector_update(sectors[Blocked], StepDt))

(* C8 as stated: a due hand-off onto a sector that refuses ends the wave   *)
(* in that update: wave_active is false, failed_waves is up by 1, combo is *)
(* 0, exactly one event is queued, a wave_failed carrying the blocked      *)
(* sector's id, the blocked sector's state is not changed, and the cursor  *)
(* is not on it.                                                           *)
C8_AsStated ==
    [][FailedHandOffDue =>
          /\ wave_active' = FALSE
          /\ failed_waves' = failed_waves + 1
          /\ combo' = 0
          /\ events' = Append(events,
                 [type |-> "wave_failed", data |-> <<Blocked>>,
                  time |-> time_elapsed'])
          /\ sectors'[Blocked].state = sectors[Blocked].state
          /\ current_wave_sector' # Blocked]_vars

(* a wave that failed at a hand-off: the event names the cursor's sector,  *)
(* the last one that took the wave, and not the one after it               *)
C8_Witness ==
    /\ ~wave_active
    /\ failed_waves = 1
    /\ combo = 0
    /\ events[Len(events)].type = "wave_failed"
    /\ events[Len(events)].data = <<current_wave_sector>>
    /\ sectors[current_wave_sector].state = "standing"
    /\ sectors[(current_wave_sector + 1) % NumSectors].state = "idle"

(* fail_wave fires in this step *)
FailWaveFires ==
    /\ IsTick
    /\ failed_waves' = failed_waves + 1
    /\ events'[Len(events')].type = "wave_failed"

(* the step is a call of init_game, which builds a new game *)
NewGame == result'.op = "init_game"

(* C9: within a game, combo goes from a positive value to 0 only in a      *)
(* step in which fail_wave fires, whatever the step is: update             *)
(* (complete_wave included), start_wave_at, boost_sector_energy,           *)
(* trigger_event, get_events, save_game or load_game; and fail_wave always *)
(* leaves it at 0.                                                         *)
C9_ComboReset ==
    [][/\ (combo > 0 /\ combo' = 0) => (FailWaveFires \/ NewGame)
       /\ FailWaveFires => combo' = 0]_vars

(* a wave that failed at its second hand-off: the combo it had built, 2    *)
(* by the points scored (10 + 20), is back at 0                            *)
C9_Witness ==
    /\ ~wave_active
    /\ failed_waves = 1
    /\ successful_waves = 0
    /\ combo = 0
    /\ score = 30
    /\ events[Len(events)].type = "wave_failed"

(* a snapshot is loaded in this step *)
Loads ==
    /\ result'.op = "load_game"
    /\ result'.success = TRUE

(* C10 as stated: score is never negative and no step other than init_game *)
(* lowers it.                                                              *)
C10_AsStated ==
    [][/\ score' >= 0
       /\ score' < score => init_game]_vars

(* C10, amended: score is never negative and no step other than init_game  *)
(* or a load_game, which puts the snapshot's score back, lowers it.        *)
C10_ScoreMonotone ==
    [][/\ score' >= 0
       /\ score' < score => (init_game \/ Loads)]_vars

(* points scored by a stand-up, then a snapshot with score 0 loaded over   *)
(* them while the sector is still standing                                 *)
C10_Witness ==
    /\ result.op = "load_game"
    /\ result.success = TRUE
    /\ score = 0
    /\ \E i \in SectorIds : sectors[i].state = "standing"

(* C11 as stated: whenever no wave is in flight, max_combo is at least as  *)
(* large as every value combo has held since init_game, the combo reached  *)
(* by a wave that later failed included.                                   *)
C11_AsStated == ~wave_active => max_combo >= peak_combo

(* a wave failed at its second hand-off after two stand-ups: combo has     *)
(* been 2 and max_combo was never raised                                   *)
C11_Witness ==
    /\ ~wave_active
    /\ failed_waves = 1
    /\ successful_waves = 0
    /\ peak_combo = 2
    /\ max_combo = 0

(* C12 as stated: while no wave is active both cursors are -1, also after  *)
(* complete_wave and fail_wave, and while a wave is active both are sector *)
(* indices in 0 .. N-1.                                                    *)
C12_AsStated ==
    /\ ~wave_active => (wave_start_sector = 0 - 1 /\ current_wave_sector = 0 - 1)
    /\ wave_active => (wave_start_sector \in SectorIds
                         /\ current_wave_sector \in SectorIds)

(* a wave has gone once round the ring and completed: the cursors still    *)
(* name its first and its last sector                                      *)
C12_Witness ==
    /\ ~wave_active
    /\ successful_waves = 1
    /\ failed_waves = 0
    /\ wave_start_sector = 0
    /\ current_wave_sector = NumSectors - 1

(* the step is a call of get_events *)
IsGetEvents == result'.op = "get_events"

(* C13: get_events returns the whole queue, oldest event first, and leaves *)
(* the queue empty; a get_events that directly follows another returns the *)
(* empty list; and every other step of a game only appends to the queue,   *)
(* so no event is returned by two calls.                                   *)
C13_ReadAndClear ==
    [][/\ IsGetEvents => (result'.events = events /\ events' = <<>>)
       /\ (IsGetEvents /\ result.op = "get_events") => result'.events = <<>>
       /\ (~IsGetEvents /\ ~NewGame)
              => /\ Len(events') >= Len(events)
                 /\ SubSeq(events', 1, Len(events)) = events]_vars

(* a get_events that returned the wave_started event of the wave now in    *)
(* flight and left nothing queued                                          *)
C13_Witness ==
    /\ result.op = "get_events"
    /\ Len(result.events) = 1
    /\ result.events[1].type = "wave_started"
    /\ events = <<>>
    /\ wave_active

(* the step is a call of save_game *)
IsSave == result'.op = "save_game"

(* the step is a call of load_game *)
IsLoad == result'.op = "load_game"

(* C14: save_game changes nothing in the game and keeps a snapshot of      *)
(* score, combo, max_combo, successful_waves and failed_waves; load_game   *)
(* called on the snapshot just taken reports loaded and leaves those five  *)
(* counters at the values they had when save_game was called.  The venue   *)
(* is fixed when the game is built and no call assigns it.                 *)
C14_RoundTrip ==
    [][/\ IsSave
            => /\ UNCHANGED game
               /\ savedData' = <<score, combo, max_combo, successful_waves,
                                 failed_waves>>
       /\ (result.op = "save_game" /\ LoadGame(savedData))
            => /\ result'.success = TRUE
               /\ score' = score
               /\ combo' = combo
               /\ max_combo' = max_combo
               /\ successful_waves' = successful_waves
               /\ failed_waves' = failed_waves]_vars

(* a snapshot taken mid-wave, after a stand-up, and loaded back: score 10  *)
(* and combo 1 as saved                                                    *)
C14_Witness ==
    /\ result.op = "load_game"
    /\ result.success = TRUE
    /\ savedData = <<10, 1, 0, 0, 0>>
    /\ score = 10
    /\ combo = 1
    /\ failed_waves = 0
    /\ wave_active

(* C15: load_game of a string that does not parse returns an error and     *)
(* leaves the engine as it was: no counter, sector, cursor, timer or       *)
(* queued event changes, and the stored snapshot is kept.                  *)
C15_MalformedLoad ==
    [][/\ LoadGame(Garbage) => result'.success = FALSE
       /\ (IsLoad /\ result'.success = FALSE)
            => UNCHANGED <<game, savedData>>]_vars

(* a refused load in the middle of a wave that has scored *)
C15_Witness ==
    /\ result.op = "load_game"
    /\ result.success = FALSE
    /\ wave_active
    /\ score = 10
    /\ combo = 1
    /\ Len(events) = 1

(* C16: load_game of a snapshot that parses changes only counters: every   *)
(* sector, wave_active, both cursors, wave_timer, the clock and the event  *)
(* queue are as before, also while a wave is in flight.                    *)
C16_LoadFrame ==
    [][Loads => /\ sectors' = sectors
                /\ wave_active' = wave_active
                /\ wave_start_sector' = wave_start_sector
                /\ current_wave_sector' = current_wave_sector
                /\ wave_timer' = wave_timer
                /\ time_elapsed' = time_elapsed
                /\ events' = events]_vars

(* a fresh snapshot loaded over a wave in flight: the score of its         *)
(* stand-up is gone, the sector is still standing and the wave goes on     *)
C16_Witness ==
    /\ result.op = "load_game"
    /\ result.success = TRUE
    /\ wave_active
    /\ sectors[current_wave_sector].state = "standing"
    /\ peak_combo = 1
    /\ combo = 1
    /\ score = 0
    /\ wave_timer = 5

(* C17: boost_sector_energy with a sector id in range adds 0.3 to that     *)
(* sector's energy, capped at 1.0, takes 0.1 off its distractions, floored *)
(* at 0, and changes nothing else: no state, timer, fatigue or enthusiasm, *)
(* no other sector, cursor, counter or queued event.  With an id below 0   *)
(* or not below the sector count it returns normally and changes nothing.  *)
C17_BoostFrame ==
    [][\A id \in CallIds :
          boost_sector_energy(id)
              => /\ result'.success = TRUE
                 /\ IF id \in SectorIds
                    THEN /\ sectors'[id] =
                               [sectors[id] EXCEPT
                                  !.energy = IF @ + 120 > 400 THEN 400
                                             ELSE @ + 120,
                                  !.distractions = IF @ < 40 THEN 0
                                                   ELSE @ - 40]
                         /\ \A j \in SectorIds \ {id} :
                               sectors'[j] = sectors[j]
                    ELSE sectors' = sectors
                 /\ UNCHANGED <<score, combo, max_combo, wave_active,
                                wave_start_sector, current_wave_sector,
                                wave_timer, time_elapsed, successful_waves,
                                failed_waves, events>>]_vars

(* a sector the mascot distracted, boosted once: energy 0.5 + 0.3 and      *)
(* distractions 0.3 - 0.1                                                  *)
C17_Witness ==
    /\ result.op = "boost_sector_energy"
    /\ \E i \in SectorIds :
          /\ sectors[i].energy = 320
          /\ sectors[i].distractions = 80
          /\ sectors[i].state = "idle"

(* the sectors a mascot at t reaches: t and its two ring neighbours *)
Ring(t) == {(t + NumSectors - 1) % NumSectors, t, (t + 1) % NumSectors}

C19_EngineSelection ==
    [][/\ resolved' \in {"pending", "true"}
       /\ (resolved' = "true") <=> (pc' \in {"ready", "updateGameState"})
       /\ pc = "catch" => (useMockEngine' /\ resolved' = "true")
       /\ (pc = "main" /\ pc' = "ready") => useMockEngine'
       /\ resolved = "true" => useMockEngine' = useMockEngine
       /\ resolved = "pending" => engines' = {}
       /\ engines' \subseteq {IF useMockEngine' THEN "mock" ELSE "pyodide"}]_vars

(* Pyodide loaded, the Python engine then failed to load, and a wave was   *)
(* started on the mock engine                                              *)
C19_Witness ==
    /\ pyodide = "loaded"
    /\ useMockEngine
    /\ pc = "ready"
    /\ resolved = "true"
    /\ engines = {"mock"}
    /\ wave_active

(* C20: every event is appended at the tail of the queue with the clock of *)
(* its emission, so the times in the queue never decrease from head to     *)
(* tail and never exceed the clock; and in an update that stands a sector  *)
(* up and then ends the wave, the stand-up is scored first: wave_completed *)
(* reports the combo and bonus after it, and a failed wave keeps the       *)
(* points of it.                                                           *)
C20_EventOrder ==
    [][/\ \A k \in 1 .. (Len(events') - 1) :
             events'[k].time <= events'[k + 1].time
       /\ \A k \in 1 .. Len(events') : events'[k].time <= time_elapsed'
       /\ (Len(events') > Len(events))
             => /\ SubSeq(events', 1, Len(events)) = events
                /\ \A k \in (Len(events) + 1) .. Len(events') :
                      events'[k].time = time_elapsed'
       /\ (StandUpDue /\ Completes)
             => /\ events'[Len(events')].type = "wave_completed"
                /\ events'[Len(events')].data =
                       <<combo + 1, 100 + 50 * (combo + 1)>>
                /\ score' = score + 10 * (combo + 1) + 100 + 50 * (combo + 1)
       /\ (StandUpDue /\ FailWaveFires)
             => /\ events'[Len(events')].type = "wave_failed"
                /\ score' = score + 10 * (combo + 1)]_vars

(* a wave started at time 0, a mascot event at 0.3 s and the wave's        *)
(* failure at 0.6 s, queued in that order                                  *)
C20_Witness ==
    /\ Len(events) = 3
    /\ events[1].type = "wave_started"
    /\ events[1].time = 0
    /\ events[2].type = "mascot"
    /\ events[2].time = 6
    /\ events[3].type = "wave_failed"
    /\ events[3].time = 12
    /\ time_elapsed = 12

(* the hand-off check of this update is due *)
Decides ==
    /\ IsTick
    /\ wave_active
    /\ wave_timer + StepDt >= 6

(* C23: while every update is fed at most 0.1 s, the sector the wave is on *)
(* is Anticipating or Standing, never timed out to Idle; it is Standing    *)
(* when the hand-off check of an update is taken, so the wave never leaves *)
(* a sector that has not stood; combo rises by 1 exactly in the update     *)
(* that stands the wave's sector up (a failed hand-off then puts it at 0); *)
(* and the first wave of a game, completed, leaves combo at the number of  *)
(* sectors.                                                                *)
C23_CappedStandUps ==
    [][(capped' /\ IsTick /\ wave_active) =>
          LET cur   == current_wave_sector
              stood == /\ sectors[cur].state = "anticipating"
                       /\ sectors'[cur].state = "standing"
          IN  /\ sectors[cur].state \in {"anticipating", "standing"}
              /\ sectors'[cur].state \in {"anticipating", "standing"}
              /\ Decides => sectors'[cur].state = "standing"
              /\ current_wave_sector' # cur => sectors'[cur].state = "standing"
              /\ ~FailWaveFires
                    => combo' = IF stood THEN combo + 1 ELSE combo
              /\ (Completes /\ successful_waves = 0 /\ failed_waves = 0)
                    => combo' = NumSectors]_vars

(* a wave started at time 0 and ticked by 0.1 s has gone round the ring:   *)
(* every sector is on its feet and combo is the number of sectors          *)
C23_Witness ==
    /\ capped
    /\ ~wave_active
    /\ successful_waves = 1
    /\ time_elapsed = NumSectors * 6
    /\ combo = NumSectors
    /\ \A i \in SectorIds : sectors[i].state = "standing"

(* without the cap: one update of 0.6 s after the start, and the wave is   *)
(* on sector 1 while sector 0 is back in Idle and was never stood up       *)
C23_PassedOver ==
    /\ ~capped
    /\ wave_active
    /\ wave_start_sector = 0
    /\ current_wave_sector = 1
    /\ sectors[0].state = "idle"
    /\ sectors[0].fatigue = 0
    /\ combo = 0

(* C25: an update takes at most one hand-off decision, whatever its dt:   *)
(* the cursor stays or moves to the next sector of the ring; at most one   *)
(* of hand-off, complete_wave and fail_wave happens, and only when the     *)
(* wave timer has reached the hand-off interval; at most one event is      *)
(* queued; and a hand-off leaves the wave active with wave_timer at 0.     *)
C25_OneDecision ==
    [][IsTick =>
          LET moved  == current_wave_sector' # current_wave_sector
              done   == successful_waves' # successful_waves
              failed == failed_waves' # failed_waves
          IN  /\ current_wave_sector' \in
                     {current_wave_sector,
                      (current_wave_sector + 1) % NumSectors}
              /\ ~(moved /\ done) /\ ~(moved /\ failed) /\ ~(done /\ failed)
              /\ successful_waves' \in {successful_waves, successful_waves + 1}
              /\ failed_waves' \in {failed_waves, failed_waves + 1}
              /\ (moved \/ done \/ failed) => Decides
              /\ (done \/ failed) => (~wave_active' /\ Len(events') = Len(events) + 1)
              /\ ~(done \/ failed) => (wave_active' = wave_active /\ events' = events)
              /\ moved => (wave_active' /\ wave_timer' = 0)]_vars

(* one update of 0.6 s, two hand-off intervals, on a wave just started at  *)
(* sector 0: the wave is on sector 1, not on sector 2, and the timer is 0  *)
C25_Witness ==
    /\ time_elapsed = BigDt
    /\ wave_active
    /\ wave_start_sector = 0
    /\ current_wave_sector = 1
    /\ wave_timer = 0
    /\ sectors[1].state = "anticipating"
    /\ sectors[1].timer = 0
    /\ Len(events) = 1

(* the latest times at which a sector found Standing, or Anticipating,    *)
(* has left that state before the updates of the run end                   *)
LastStandingSeen == MaxLongTime - StandingDuration - wave_speed
LastAnticipatingSeen == MaxLongTime - 2 * wave_speed

(* C24 as stated: a sector that has been Standing for 1.5 s when an update *)
(* ends is Seated with timer 0.                                            *)
C24_AsStated ==
    [][\A i \in SectorIds :
          (/\ IsTick
           /\ sectors[i].state = "standing"
           /\ sectors[i].timer + StepDt >= StandingDuration)
          => (sectors'[i].state = "seated" /\ sectors'[i].timer = 0)]_vars

(* C24: the timed transitions of one update.  A Standing sector whose time *)
(* in Standing is more than 1.5 s after the update is seated with timer 0  *)
(* (and may be started again by the hand-off of the same update); at 1.5 s *)
(* or less it stays Standing and its timer grows by dt.  An Anticipating   *)
(* sector whose time is more than 0.5 s after the update becomes Idle with *)
(* timer 0 (and may be started again by the same update); otherwise it     *)
(* stays Anticipating with its timer grown by dt, or is stood up as the    *)
(* wave's sector.  And while updates go on, a sector found Standing or     *)
(* Anticipating leaves that state.                                         *)
C24_TimedTransitions ==
    /\ [][IsTick =>
            \A i \in SectorIds :
               LET s == sectors[i]
                   n == sectors'[i]
                   t == s.timer + StepDt
               IN  /\ (s.state = "standing" /\ t > StandingDuration) =>
                          /\ n.timer = 0
                          /\ \/ n.state = "seated"
                             \/ n.state = "anticipating" /\ Started(i)
                   /\ (s.state = "standing" /\ t <= StandingDuration) =>
                          (n.state = "standing" /\ n.timer = t)
                   /\ (s.state = "anticipating" /\ t > AnticipationTimeout) =>
                          /\ n.timer = 0
                          /\ \/ n.state = "idle"
                             \/ n.state = "anticipating" /\ Started(i)
                   /\ (s.state = "anticipating" /\ t <= AnticipationTimeout) =>
                          \/ n.state = "anticipating" /\ n.timer = t
                          \/ /\ n.state = "standing" /\ n.timer = 0
                             /\ wave_active /\ i = current_wave_sector]_vars
    /\ \A i \in SectorIds :
          /\ (sectors[i].state = "standing" /\ time_elapsed <= LastStandingSeen)
                ~> (sectors[i].state # "standing")
          /\ (sectors[i].state = "anticipating"
                 /\ time_elapsed <= LastAnticipatingSeen)
                ~> (sectors[i].state # "anticipating")

(* sector 0 has been Standing for exactly 1.5 s and is still Standing *)
C24_Witness ==
    /\ sectors[0].state = "standing"
    /\ sectors[0].timer = StandingDuration
    /\ time_elapsed <= LastStandingSeen + StandingDuration

(* the latest time at which a wave found active has ended before the      *)
(* updates of the run end: one hand-off decision per sector of the ring    *)
LastWaveSeen == MaxLongTime - wave_speed - (NumSectors - 1) * BigDt

(* C27: every started wave ends.  A wave stops being active only in an     *)
(* update whose hand-off check is due, through exactly one of              *)
(* complete_wave and fail_wave; every due hand-off check either ends the   *)
(* wave or moves the cursor to the next sector of the ring, which is not   *)
(* the start sector, so a wave sees at most NumSectors checks; and while   *)
(* updates go on, with boosts and mascot events in between, a wave found   *)
(* active ends.                                                            *)
C27_WaveEnds ==
    /\ [][/\ (wave_active /\ ~wave_active' /\ ~NewGame) =>
               /\ Decides
               /\ successful_waves' + failed_waves'
                     = successful_waves + failed_waves + 1
          /\ (Completes \/ FailWaveFires) => (wave_active /\ ~wave_active')
          /\ Decides =>
               \/ ~wave_active'
               \/ /\ current_wave_sector' = next_sector_id
                  /\ current_wave_sector' # wave_start_sector
                  /\ wave_start_sector' = wave_start_sector
          /\ (wave_active /\ wave_active' /\ ~Decides) =>
               UNCHANGED <<current_wave_sector, wave_start_sector>>]_vars
    /\ (wave_active /\ time_elapsed <= LastWaveSeen) ~> ~wave_active

(* a wave that a mascot event, sent while it was active, made fail *)
C27_Witness ==
    /\ ~wave_active
    /\ failed_waves = 1
    /\ successful_waves = 0
    /\ Len(events) = 3
    /\ events[1].type = "wave_started"
    /\ events[2].type = "mascot"
    /\ events[3].type = "wave_failed"

(* the number of events of a type queued since the game was built; the    *)
(* queue holds all of them as long as get_events is not called             *)
Emitted(type) ==
    Cardinality({k \in 1 .. Len(events) : events[k].type = type})

InFlight == IF wave_active THEN 1 ELSE 0

(* C28: wave accounting.  The wave_started events emitted are as many as   *)
(* successful_waves + failed_waves, plus one while a wave is active; the   *)
(* wave_completed events are successful_waves and the wave_failed events   *)
(* failed_waves; so at most one started wave has not ended.                *)
C28_WaveAccounting ==
    /\ Emitted("wave_started") = successful_waves + failed_waves + InFlight
    /\ Emitted("wave_completed") = successful_waves
    /\ Emitted("wave_failed") = failed_waves
    /\ Emitted("wave_started")
         - Emitted("wave_completed") - Emitted("wave_failed") \in {0, 1}

(* a second wave in flight after a first one that failed *)
C28_Witness ==
    /\ wave_active
    /\ failed_waves = 1
    /\ successful_waves = 0
    /\ Emitted("wave_started") = 2
    /\ Emitted("wave_failed") = 1

(* the step is a frame callback that calls update_game *)
CallsUpdate == pc = "ready" /\ pc' = "updateGameState"

(* C21: every dt the frame loop passes to update_game is within 0 and the  *)
(* cap of 0.1 s, whatever the frame timestamps and whatever pauses,        *)
(* resumes and tab changes come between the frames: it is the time since   *)
(* the last frame, capped, and 0 when lastTime is 0.  Starting the loop,   *)
(* resuming and the tab becoming visible set lastTime to 0, and only a     *)
(* frame callback sets it again, so the first frame after each of them     *)
(* computes dt = 0.                                                        *)
C21_FrameDt ==
    [][/\ CallsUpdate =>
            /\ StepDt >= 0
            /\ StepDt <= FrameCap
            /\ StepDt = IF lastTime = 0 THEN 0
                        ELSE Min(clock' - lastTime, FrameCap)
       /\ (isGameRunning' /\ (~isGameRunning \/ restartGame)) => lastTime' = 0
       /\ (isPaused /\ ~isPaused' /\ isGameRunning') => lastTime' = 0
       /\ (~isTabVisible /\ isTabVisible') => lastTime' = 0
       /\ (lastTime = 0 /\ lastTime' # 0) =>
            (isGameRunning /\ clock' > clock /\ lastTime' = clock')]_vars

(* in a hidden tab, a frame 0.25 s after a skipped one passes dt = 0.1 *)
C21_Witness ==
    /\ pc = "updateGameState"
    /\ result.op = "update_game"
    /\ ~isTabVisible
    /\ lastHiddenUpdateTime = clock
    /\ lastTime = clock
    /\ clock = MaxClock
    /\ time_elapsed = FrameCap

(* sequence a is the beginning of sequence b *)
IsPrefix(a, b) == Len(a) <= Len(b) /\ SubSeq(b, 1, Len(a)) = a

C29_AsStated ==
    [][isPaused => (~CallsUpdate /\ calls' = calls)]_vars

(* C30: at most one frame request of gameLoop is pending, the one          *)
(* animationId names, and at most one scoreboard and one mascot interval   *)
(* are set, those of eventIntervals; none at all while the loop is         *)
(* stopped; and update_game is called only while the loop is on.           *)
C30_OneLoop ==
    /\ [](/\ Cardinality(pending) <= 1
          /\ pending \subseteq {animationId}
          /\ \A kind \in {"scoreboard", "mascot"} :
                Cardinality({t \in timers : t.kind = kind}) <= 1
          /\ {t.id : t \in timers}
                = {eventIntervals[k] : k \in 1 .. Len(eventIntervals)}
          /\ ~isGameRunning => (pending = {} /\ timers = {}))
    /\ [][CallsUpdate => isGameRunning]_vars

(* a game restarted while its loop was on: one frame request and two       *)
(* intervals                                                               *)
C30_Witness ==
    /\ result.op = "init_game"
    /\ gameState = "state"
    /\ isGameRunning
    /\ Cardinality(pending) = 1
    /\ Cardinality(timers) = 2

====
